---- MODULE Spec2Model ----
(***************************************************************************)
(* State-machine model of src/oanda_live.py: a Flask application that      *)
(* stores price alerts in a SQLite table and a background worker thread    *)
(* that polls OANDA prices, marks alerts as triggered and sends a          *)
(* Telegram message.                                                       *)
(*                                                                         *)
(* Numbers.  Python floats are modelled as tagged values: Num(n) is the    *)
(* finite number n * 10^-6 (prices in millionths, so that 0.0001 is 100    *)
(* and the force-trigger price 1.234567 is 1234567), Inf is float("inf"),  *)
(* NULL is Python None / SQL NULL.  SQLite binds a NaN as NULL, so a NaN   *)
(* target is stored as NULL.  Timestamps are Num(seconds).                 *)
(* Strings that the code slices or scans (symbols, instrument codes) are   *)
(* sequences of one-character strings.                                     *)
(***************************************************************************)
EXTENDS Integers, Sequences, FiniteSets, Bags, TLC

VARIABLES
    alerts,          \* the alerts table: row id = index (AUTOINCREMENT from 1)
    now,             \* int(time.time())
    OANDA_TOKEN,     \* TRUE iff the environment sets OANDA_TOKEN
    cached,          \* get_account_id.cached
    stop_event,      \* threading.Event
    worker_started,  \* _worker_started
    pc,              \* position of the worker thread in worker_loop
    rows,            \* worker local: result of the SELECT of line 158
    prices,          \* worker local: result of fetch_prices
    i,               \* worker local: position of the for loop in rows
    last_val,        \* worker local: price written by the UPDATE of line 199
    ts,              \* worker local: timestamp written by the UPDATE of line 199
    moved,           \* history: the UPDATE of line 199 found the row 'active'
    sent,            \* history: the send_telegram call the worker has just
                     \* made, its message and the value it returned
    outbox,          \* history: the bag of the alert ids the worker has called
                     \* send_telegram for
    polled,          \* history: the arguments of the fetch_prices calls the
                     \* worker has made in the current cycle
    threads,         \* history: the number of Thread objects started
    dump,            \* position of a /dump_prices request in get_account_id
    cache_writes     \* history: the number of writes of get_account_id.cached

vars == <<alerts, now, OANDA_TOKEN, cached, stop_event,
          worker_started, pc, rows, prices, i, last_val, ts, moved, sent,
          outbox, polled, threads, dump, cache_writes>>

----------------------------------------------------------------------------
(* Bounds of the model *)

\* alerts created in a run of Spec, and in a run of SpecEval
MaxAlerts == 2
MaxEvalAlerts == 1
\* alerts created in a run of SpecPoll
MaxPollAlerts == 2
\* the last second of the clock
MaxTime == 2

----------------------------------------------------------------------------
(* Values *)

NULL == [k |-> "null", v |-> 0]
Inf == [k |-> "inf", v |-> 0]
Num(n) == [k |-> "num", v |-> n]

\* Python truthiness of a float-or-None: None and 0.0 are falsy.
Truthy(x) == x # NULL /\ x # Num(0)

\* Python `a or b`
PyOr(a, b) == IF Truthy(a) THEN a ELSE b

\* float comparison last >= target, last finite
FloatGeq(a, b) == IF b = Inf THEN FALSE ELSE a.v >= b.v

\* float comparison last <= target, last finite
FloatLeq(a, b) == IF b = Inf THEN TRUE ELSE a.v <= b.v

\* abs(last - target), last finite: a finite number or Inf
FloatAbsDiff(a, b) ==
    IF b = Inf THEN Inf
    ELSE Num(IF a.v >= b.v THEN a.v - b.v ELSE b.v - a.v)

----------------------------------------------------------------------------
(* Strings as sequences of characters *)

Lower == <<"a","b","c","d","e","f","g","h","i","j","k","l","m",
           "n","o","p","q","r","s","t","u","v","w","x","y","z">>
Upper == <<"A","B","C","D","E","F","G","H","I","J","K","L","M",
           "N","O","P","Q","R","S","T","U","V","W","X","Y","Z">>

UpperChar(c) ==
    IF \E n \in 1..26 : Lower[n] = c
    THEN Upper[CHOOSE n \in 1..26 : Lower[n] = c]
    ELSE c

\* str.upper()
StrUpper(s) == [n \in 1..Len(s) |-> UpperChar(s[n])]

\* str.strip(): drop leading and trailing blanks
RECURSIVE LStrip(_)
LStrip(s) == IF s # <<>> /\ Head(s) = " " THEN LStrip(Tail(s)) ELSE s
RECURSIVE RStrip(_)
RStrip(s) ==
    IF s # <<>> /\ s[Len(s)] = " " THEN RStrip(SubSeq(s, 1, Len(s) - 1)) ELSE s
StrStrip(s) == RStrip(LStrip(s))

\* str.startswith(p)
StartsWith(s, p) == Len(s) >= Len(p) /\ SubSeq(s, 1, Len(p)) = p

XAUUSD == <<"X","A","U","U","S","D">>
XAU_USD == <<"X","A","U","_","U","S","D">>
EURUSD == <<"E","U","R","U","S","D">>
XAU == <<"X","A","U">>

\* INSTRUMENT_OVERRIDES = {"XAUUSD": "XAU_USD"}
INSTRUMENT_OVERRIDES == [s \in {XAUUSD} |-> XAU_USD]

to_oanda_instrument(sym) ==
    LET s == StrUpper(StrStrip(sym)) IN
    IF s \in DOMAIN INSTRUMENT_OVERRIDES THEN INSTRUMENT_OVERRIDES[s]
    ELSE IF \E n \in 1..Len(s) : s[n] = "_" THEN s
    ELSE IF Len(s) > 3
         THEN SubSeq(s, 1, Len(s) - 3) \o <<"_">> \o SubSeq(s, Len(s) - 2, Len(s))
    ELSE s

----------------------------------------------------------------------------
(* float(): the form strings of the model and what float() makes of them *)

NaN == [k |-> "nan", v |-> 0]
ParseError == [k |-> "error", v |-> 0]

\* float(request.form["target"]); ParseError stands for the ValueError
ParseFloat(str) ==
    CASE str = "1.1" -> Num(1100000)
      [] str = "2000.00" -> Num(2000000000)
      [] str = "inf" -> Inf
      [] str = "nan" -> NaN
      [] OTHER -> ParseError

\* sqlite3 binds a float NaN as NULL
SqlBind(x) == IF x = NaN THEN NULL ELSE x

----------------------------------------------------------------------------
(* The alerts table and the SQL statements the program runs on it *)

\* Mutant of SqlInsert: the new row takes the id of the last row.
SqlInsertReuse(tbl, instrument, oanda_instr, direction, target, note, status, created) ==
    Append(tbl, [id |-> IF tbl = <<>> THEN 1 ELSE tbl[Len(tbl)].id,
                 instrument |-> instrument,
                 oanda_instrument |-> oanda_instr,
                 direction |-> direction,
                 target |-> SqlBind(target),
                 note |-> note,
                 status |-> status,
                 created_ts |-> created,
                 triggered_ts |-> NULL,
                 triggered_price |-> NULL])

\* INSERT INTO alerts (instrument,oanda_instrument,direction,target,note,
\*                     status,created_ts) VALUES (?,?,?,?,?,?,?)
SqlInsert(tbl, instrument, oanda_instr, direction, target, note, status, created) ==
    Append(tbl, [id |-> Len(tbl) + 1,
                 instrument |-> instrument,
                 oanda_instrument |-> oanda_instr,
                 direction |-> direction,
                 target |-> SqlBind(target),
                 note |-> note,
                 status |-> status,
                 created_ts |-> created,
                 triggered_ts |-> NULL,
                 triggered_price |-> NULL])

\* Mutant of SqlUpdateCancelled: the WHERE clause is missing.
SqlUpdateCancelledAll(tbl, aid) ==
    [n \in DOMAIN tbl |-> [tbl[n] EXCEPT !.status = "cancelled"]]

\* UPDATE alerts SET status='cancelled' WHERE id=?
SqlUpdateCancelled(tbl, aid) ==
    [n \in DOMAIN tbl |->
        IF tbl[n].id = aid THEN [tbl[n] EXCEPT !.status = "cancelled"] ELSE tbl[n]]

\* Mutant of SqlUpdateTriggered: the two bound parameters in the wrong order.
SqlUpdateTriggeredSwapped(tbl, t, price, aid) ==
    [n \in DOMAIN tbl |->
        IF tbl[n].id = aid
        THEN [tbl[n] EXCEPT !.status = "triggered",
                            !.triggered_ts = price,
                            !.triggered_price = t]
        ELSE tbl[n]]

\* UPDATE alerts SET status='triggered', triggered_ts=?, triggered_price=? WHERE id=?
SqlUpdateTriggered(tbl, t, price, aid) ==
    [n \in DOMAIN tbl |->
        IF tbl[n].id = aid
        THEN [tbl[n] EXCEPT !.status = "triggered",
                            !.triggered_ts = t,
                            !.triggered_price = price]
        ELSE tbl[n]]

RowOf(a) == [id |-> a.id, instrument |-> a.instrument,
             oanda_instrument |-> a.oanda_instrument,
             direction |-> a.direction, target |-> a.target]

IsActive(a) == a.status = "active"

\* Mutant of SqlSelectActive: the WHERE clause is missing.
SqlSelectAll(tbl) == [n \in 1..Len(tbl) |-> RowOf(tbl[n])]

\* SELECT id,instrument,oanda_instrument,direction,target FROM alerts
\*  WHERE status='active'     (rows come in rowid order)
SqlSelectActive(tbl) ==
    LET act == SelectSeq(tbl, IsActive)
    IN [n \in 1..Len(act) |-> RowOf(act[n])]

\* SELECT note FROM alerts WHERE id=?  and the strip of line 201
\* (notes of the model carry no blanks)
SqlSelectNote(tbl, aid) ==
    IF \E n \in DOMAIN tbl : tbl[n].id = aid
    THEN tbl[CHOOSE n \in DOMAIN tbl : tbl[n].id = aid].note
    ELSE ""

----------------------------------------------------------------------------
(* Price oracle *)

EmptyDict == [x \in {} |-> NULL]

\* "" stands for None: no account id
NoAccount == ""
ACCOUNT == "101-001"

AccountHttp == {"ok", "no_accounts", "non200", "exception"}
PricingHttp == {"ok", "non200", "exception"}

\* get_account_id(): the account id returned and the new value of .cached;
\* http is the outcome of GET /v3/accounts, read only when the call is made
get_account_id(c, token, http) ==
    IF c # NoAccount THEN [aid |-> c, cached |-> c]
    ELSE IF ~token THEN [aid |-> NoAccount, cached |-> c]
    ELSE IF http = "ok" THEN [aid |-> ACCOUNT, cached |-> ACCOUNT]
    ELSE [aid |-> NoAccount, cached |-> c]

\* line 141: mid of one price entry.  Quotes carry at most five decimals, so
\* bid + ask is even in millionths and the division is exact.
Mid(bid, ask) ==
    IF bid # NULL /\ ask # NULL THEN Num((bid.v + ask.v) \div 2)
    ELSE PyOr(bid, ask)

\* Mutant of fetch_prices: the status code of the pricing answer is not tested.
fetch_pricesAnyStatus(instruments, aid, http, resp) ==
    IF instruments = {} THEN EmptyDict
    ELSE IF aid = NoAccount THEN EmptyDict
    ELSE IF http = "exception" THEN EmptyDict
    ELSE [c \in DOMAIN resp |->
            [bid |-> resp[c].bid, ask |-> resp[c].ask,
             mid |-> Mid(resp[c].bid, resp[c].ask)]]

\* fetch_prices(instruments) once the account id is known; http is the outcome
\* of GET /pricing and resp the entries of its "prices" list that were read
\* before any exception: a function from some instruments to [bid, ask]
fetch_prices(instruments, aid, http, resp) ==
    IF instruments = {} THEN EmptyDict
    ELSE IF aid = NoAccount THEN EmptyDict
    ELSE IF http # "ok" THEN EmptyDict
    ELSE [c \in DOMAIN resp |->
            [bid |-> resp[c].bid, ask |-> resp[c].ask,
             mid |-> Mid(resp[c].bid, resp[c].ask)]]

----------------------------------------------------------------------------
(* Evaluation of one alert, lines 169-196 *)

\* lines 169-175: the price the worker evaluates, NULL when the alert is skipped
ObservedPrice(p, oanda_inst) ==
    IF oanda_inst \notin DOMAIN p THEN NULL
    ELSE LET data == p[oanda_inst] IN PyOr(PyOr(data.mid, data.bid), data.ask)

\* line 190-193
EPS == 100
EPS_XAU == 100000

\* Mutant of Tolerance: one tolerance for every instrument.
ToleranceFlat(oanda_inst) == EPS

Tolerance(oanda_inst) == IF StartsWith(oanda_inst, XAU) THEN EPS_XAU ELSE EPS

\* Mutant of Triggered: 'touch' compares with < instead of <=.
TriggeredStrictTouch(direction, last, target, oanda_inst) ==
    IF target = NULL THEN FALSE
    ELSE IF direction = "above" /\ FloatGeq(last, target) THEN TRUE
    ELSE IF direction = "below" /\ FloatLeq(last, target) THEN TRUE
    ELSE IF direction = "touch"
         THEN LET d == FloatAbsDiff(last, target)
              IN d # Inf /\ d.v < Tolerance(oanda_inst)
    ELSE FALSE

\* lines 177-195: float(target) raises on None and the alert is skipped
Triggered(direction, last, target, oanda_inst) ==
    IF target = NULL THEN FALSE
    ELSE IF direction = "above" /\ FloatGeq(last, target) THEN TRUE
    ELSE IF direction = "below" /\ FloatLeq(last, target) THEN TRUE
    ELSE IF direction = "touch"
         THEN LET d == FloatAbsDiff(last, target)
              IN d # Inf /\ d.v <= Tolerance(oanda_inst)
    ELSE FALSE

\* send_telegram(text): the value returned; configured says whether
\* TELEGRAM_BOT_TOKEN and TELEGRAM_CHAT_ID are set (an input of each call: the
\* model lets it differ from call to call, which only adds behaviours), http
\* is the outcome of the POST, read only when it is made
TelegramHttp == {"200", "non200", "exception"}

send_telegram(configured, http) ==
    IF ~configured THEN FALSE
    ELSE http = "200"

\* the worker's last statement was no send_telegram call
NoMessage == [id |-> 0, instrument |-> <<>>, direction |-> "", target |-> NULL,
              price |-> NULL, ts |-> NULL, note |-> "", ok |-> FALSE]

----------------------------------------------------------------------------
(* Inputs of the model *)

xauusd == <<" ","x","a","u","u","s","d">>

\* POST /create forms <<symbol, direction, target, note>>.  CreateInputs is
\* the narrow set used where the interleaving of requests and worker is the
\* subject; EvalCreateInputs covers every direction, both instrument classes,
\* an unknown direction and the targets float() accepts or rejects.
CreateInputs ==
    { <<EURUSD, "above", "1.1", "">>,
      <<EURUSD, "above", "abc", "">> }

EvalCreateInputs ==
    { <<EURUSD, "above", "1.1", "">>,
      <<EURUSD, "below", "1.1", "">>,
      <<EURUSD, "touch", "1.1", "">>,
      <<xauusd, "touch", "1.1", "tp">>,
      <<EURUSD, "sideways", "1.1", "">>,
      <<EURUSD, "below", "inf", "">>,
      <<EURUSD, "above", "nan", "">>,
      <<EURUSD, "above", "abc", "">> }

\* what the pricing endpoint may report for one instrument: [bid, ask]
QuoteInputs ==
    { [bid |-> Num(1100000), ask |-> Num(1100200)],   \* mid 1.10010
      [bid |-> NULL,         ask |-> NULL] }          \* no side

EvalQuoteInputs ==
    { [bid |-> Num(1100000), ask |-> Num(1100200)],   \* mid 1.10010
      [bid |-> NULL,         ask |-> Num(1100500)],   \* ask only, 1.10050
      [bid |-> Num(900000),  ask |-> NULL],           \* bid only, 0.90000
      [bid |-> NULL,         ask |-> NULL] }          \* no side

\* PollCreateInputs are the forms of SpecPoll: two symbols, so that a cycle
\* reads rows with the same code and rows with different codes
PollCreateInputs ==
    { <<EURUSD, "above", "1.1", "">>,
      <<xauusd, "above", "1.1", "">> }

\* QuoteCreateInputs and SideInputs are the inputs of SpecQuotes: a 'touch'
\* alert at 2000.00 on a metal and on a currency pair; every combination of
\* an absent, a zero and a positive bid and ask, and the price 2000.05 (as a
\* one-sided quote: the sum of two such sides is beyond the integers of the
\* model checker)
QuoteCreateInputs ==
    { <<XAUUSD, "touch", "2000.00", "">>,
      <<EURUSD, "touch", "2000.00", "">> }

SideInputs ==
    { [bid |-> b, ask |-> a] : b \in {NULL, Num(0), Num(1100000)},
                               a \in {NULL, Num(0), Num(1100200)} }
    \cup { [bid |-> NULL, ask |-> Num(2000050000)] }

\* the codes polled in a cycle: sorted({r[2] for r in rows if r[2]})
Instruments(rs) ==
    { rs[n].oanda_instrument : n \in DOMAIN rs } \ { <<>> }

\* the responses of the pricing endpoint: entries for some of the instruments
Responses(instruments, quotes) ==
    UNION { [S -> quotes] : S \in SUBSET instruments }

----------------------------------------------------------------------------
(* Initial state: the module has been imported, init_db has run on an empty *)
(* database, no thread is started.                                          *)

Init ==
    /\ alerts = <<>>
    /\ now = 1
    /\ OANDA_TOKEN \in BOOLEAN
    /\ cached = NoAccount
    /\ stop_event = FALSE
    /\ worker_started = FALSE
    /\ pc = "idle"
    /\ rows = <<>>
    /\ prices = EmptyDict
    /\ i = 0
    /\ last_val = NULL
    /\ ts = NULL
    /\ moved = FALSE
    /\ sent = NoMessage
    /\ outbox = EmptyBag
    /\ polled = <<>>
    /\ threads = 0
    /\ dump = "idle"
    /\ cache_writes = 0

config == <<OANDA_TOKEN>>
locals == <<rows, prices, i, last_val, ts, moved, sent, polled>>
boot == <<worker_started, threads>>
oracle == <<cached, cache_writes, dump>>

\* time.time() advances
Tick ==
    /\ now < MaxTime
    /\ now' = now + 1
    /\ UNCHANGED <<alerts, config, oracle, stop_event, boot, pc,
                   locals, outbox>>

----------------------------------------------------------------------------
(* Worker thread bootstrap and shutdown *)

\* Mutant of start_worker_background: the flag is not tested.
start_worker_backgroundUnguarded ==
    /\ ~stop_event
    /\ worker_started' = TRUE
    /\ threads' = threads + 1
    /\ pc' = "loop"
    /\ UNCHANGED <<alerts, now, config, oracle, stop_event, locals, outbox>>

\* start_worker_background(), lines 217-226; the body runs under _worker_lock
start_worker_background ==
    /\ ~stop_event
    /\ IF worker_started
       THEN UNCHANGED <<boot, pc>>
       ELSE /\ worker_started' = TRUE
            /\ threads' = threads + 1
            /\ pc' = "loop"
    /\ UNCHANGED <<alerts, now, config, oracle, stop_event, locals, outbox>>

\* _shutdown(), lines 233-240
Shutdown ==
    /\ ~stop_event
    /\ stop_event' = TRUE
    /\ UNCHANGED <<alerts, now, config, oracle, boot, pc, locals,
                   outbox>>

\* Requests are served once the before_first_request hook has run
\* (lines 228-231) and until the server has returned (lines 380-383).
Serving == worker_started /\ ~stop_event

----------------------------------------------------------------------------
(* Request handlers *)

\* POST /create, lines 311-325
create_alert(symbol, direction, target, note) ==
    /\ Serving
    /\ LET instrument == StrUpper(StrStrip(symbol))
           t == ParseFloat(target)
       IN IF t = ParseError
          THEN UNCHANGED alerts                      \* "Invalid target", 400
          ELSE alerts' = SqlInsert(alerts, instrument,
                                   to_oanda_instrument(instrument),
                                   direction, t, note, "active", Num(now))
    /\ UNCHANGED <<now, config, oracle, stop_event, boot, pc,
                   locals, outbox>>

\* POST /cancel, lines 327-332
cancel(aid) ==
    /\ Serving
    /\ alerts' = SqlUpdateCancelled(alerts, aid)
    /\ UNCHANGED <<now, config, oracle, stop_event, boot, pc,
                   locals, outbox>>

\* line 373: the price written by the force-trigger endpoint, 1.234567
FORCE_PRICE == 1234567

\* GET /force_trigger/<aid>, lines 370-374
force_trigger(aid) ==
    /\ Serving
    /\ alerts' = SqlUpdateTriggered(alerts, Num(now), Num(FORCE_PRICE), aid)
    /\ UNCHANGED <<now, config, oracle, stop_event, boot, pc,
                   locals, outbox>>

----------------------------------------------------------------------------
(* worker_loop, lines 154-215.  pc is the statement the thread is about to  *)
(* run: "loop" the test of line 156, "select" the SELECT of line 158,       *)
(* "fetch" lines 163-166, "check" the body of the for loop up to the UPDATE *)
(* of line 199, "notify" lines 200-211, "sleep" line 212 (or 161),          *)
(* "except" lines 213-215, "done" after the loop, "killed" when the process *)
(* has exited before the loop ended.  A statement on the database may raise *)
(* (sqlite3.OperationalError).  The locals of a cycle are dead once its     *)
(* last statement has run and are cleared then.                             *)

\* rows, prices and i after the last statement of a cycle
EndCycle ==
    /\ rows' = <<>>
    /\ prices' = EmptyDict
    /\ i' = 0
    /\ polled' = <<>>

\* the for loop of line 167 moves to the next row, or the cycle ends
NextRow ==
    IF i < Len(rows)
    THEN pc' = "check" /\ i' = i + 1 /\ UNCHANGED <<rows, prices, polled>>
    ELSE pc' = "sleep" /\ EndCycle

\* a statement raises: control goes to the handler of line 213
Raise ==
    /\ pc' = "except"
    /\ EndCycle
    /\ last_val' = NULL
    /\ ts' = NULL
    /\ moved' = FALSE
    /\ sent' = NoMessage

\* line 156
WorkerLoop ==
    /\ pc = "loop"
    /\ pc' = IF stop_event THEN "done" ELSE "select"
    /\ UNCHANGED <<alerts, now, config, oracle, stop_event, boot,
                   locals, outbox>>

\* lines 158-162
WorkerSelect ==
    /\ pc = "select"
    /\ \/ LET selected == SqlSelectActive(alerts)
          IN IF selected = <<>>
             THEN pc' = "sleep" /\ UNCHANGED rows
             ELSE pc' = "fetch" /\ rows' = selected
       \/ /\ pc' = "except"
          /\ UNCHANGED rows
    /\ UNCHANGED <<alerts, now, config, oracle, stop_event, boot,
                   prices, i, last_val, ts, moved, sent, outbox, polled>>

\* Mutant of WorkerFetch: the oracle is asked once for every row.
WorkerFetchPerRow(quotes) ==
    /\ pc = "fetch"
    /\ \E out \in { LET acct == get_account_id(cached, OANDA_TOKEN, ahttp)
                    IN <<IF Instruments(rows) = {} THEN cached ELSE acct.cached,
                         fetch_prices(Instruments(rows), acct.aid, phttp, resp)>> :
                    ahttp \in AccountHttp, phttp \in PricingHttp,
                    resp \in Responses(Instruments(rows), quotes) } :
          /\ cached' = out[1]
          /\ cache_writes' = IF out[1] # cached THEN cache_writes + 1
                                                ELSE cache_writes
          /\ prices' = out[2]
    /\ polled' = polled \o [k \in DOMAIN rows |-> {rows[k].oanda_instrument}]
    /\ i' = 1
    /\ pc' = "check"
    /\ UNCHANGED <<alerts, now, config, stop_event, boot, rows, dump,
                   last_val, ts, moved, sent, outbox>>

\* lines 163-166: fetch_prices, with the call of get_account_id it makes
WorkerFetch(quotes) ==
    /\ pc = "fetch"
    /\ \E out \in { LET acct == get_account_id(cached, OANDA_TOKEN, ahttp)
                    IN <<IF Instruments(rows) = {} THEN cached ELSE acct.cached,
                         fetch_prices(Instruments(rows), acct.aid, phttp, resp)>> :
                    ahttp \in AccountHttp, phttp \in PricingHttp,
                    resp \in Responses(Instruments(rows), quotes) } :
          /\ cached' = out[1]
          /\ cache_writes' = IF out[1] # cached THEN cache_writes + 1
                                                ELSE cache_writes
          /\ prices' = out[2]
    /\ polled' = Append(polled, Instruments(rows))
    /\ i' = 1
    /\ pc' = "check"
    /\ UNCHANGED <<alerts, now, config, stop_event, boot, rows, dump,
                   last_val, ts, moved, sent, outbox>>

\* Mutant of WorkerCheck: prices[oanda_inst] instead of prices.get(oanda_inst),
\* a KeyError when the oracle has no entry for the instrument.
WorkerCheckKeyError ==
    /\ pc = "check"
    /\ LET r == rows[i]
           last == ObservedPrice(prices, r.oanda_instrument)
       IN IF r.oanda_instrument \notin DOMAIN prices
          THEN Raise /\ UNCHANGED alerts
          ELSE IF last # NULL /\ Triggered(r.direction, last, r.target, r.oanda_instrument)
          THEN \/ /\ alerts' = SqlUpdateTriggered(alerts, Num(now), last, r.id)
                  /\ ts' = Num(now)
                  /\ last_val' = last
                  /\ moved' = IsActive(alerts[r.id])
                  /\ sent' = NoMessage
                  /\ pc' = "notify"
                  /\ UNCHANGED <<rows, prices, i, polled>>
               \/ /\ Raise
                  /\ UNCHANGED alerts
          ELSE /\ NextRow
               /\ sent' = NoMessage
               /\ UNCHANGED <<alerts, ts, last_val, moved>>
    /\ UNCHANGED <<now, config, oracle, stop_event, boot, outbox>>

\* lines 168-199 for the row rows[i]
WorkerCheck ==
    /\ pc = "check"
    /\ LET r == rows[i]
           last == ObservedPrice(prices, r.oanda_instrument)
       IN IF last # NULL /\ Triggered(r.direction, last, r.target, r.oanda_instrument)
          THEN \/ /\ alerts' = SqlUpdateTriggered(alerts, Num(now), last, r.id)
                  /\ ts' = Num(now)
                  /\ last_val' = last
                  /\ moved' = IsActive(alerts[r.id])
                  /\ sent' = NoMessage
                  /\ pc' = "notify"
                  /\ UNCHANGED <<rows, prices, i, polled>>
               \/ /\ Raise
                  /\ UNCHANGED alerts
          ELSE /\ NextRow
               /\ sent' = NoMessage
               /\ UNCHANGED <<alerts, ts, last_val, moved>>
    /\ UNCHANGED <<now, config, oracle, stop_event, boot, outbox>>

\* Mutant of WorkerNotify: a failed send puts the alert back to 'active'.
WorkerNotifyRollback ==
    /\ pc = "notify"
    /\ \/ \E delivered \in { send_telegram(configured, http) :
                               configured \in BOOLEAN, http \in TelegramHttp } :
            LET r == rows[i]
                msg == [id |-> r.id, instrument |-> r.instrument,
                        direction |-> r.direction, target |-> r.target,
                        price |-> last_val, ts |-> ts,
                        note |-> SqlSelectNote(alerts, r.id),
                        ok |-> delivered]
            IN /\ outbox' = outbox (+) SetToBag({r.id})
               /\ sent' = msg
               /\ alerts' = IF delivered THEN alerts
                             ELSE [alerts EXCEPT ![r.id].status = "active",
                                                 ![r.id].triggered_ts = NULL,
                                                 ![r.id].triggered_price = NULL]
               /\ NextRow
               /\ last_val' = NULL
               /\ ts' = NULL
               /\ moved' = FALSE
       \/ /\ Raise
          /\ UNCHANGED <<alerts, outbox>>
    /\ UNCHANGED <<now, config, oracle, stop_event, boot>>

\* lines 200-211 for the row rows[i]: the SELECT of the note, the message and
\* the send_telegram call
WorkerNotify ==
    /\ pc = "notify"
    /\ \/ \E ok \in { send_telegram(configured, http) :
                        configured \in BOOLEAN, http \in TelegramHttp } :
            LET r == rows[i]
                msg == [id |-> r.id, instrument |-> r.instrument,
                        direction |-> r.direction, target |-> r.target,
                        price |-> last_val, ts |-> ts,
                        note |-> SqlSelectNote(alerts, r.id),
                        ok |-> ok]
            IN /\ outbox' = outbox (+) SetToBag({r.id})
               /\ sent' = msg
               /\ NextRow
               /\ last_val' = NULL
               /\ ts' = NULL
               /\ moved' = FALSE
       \/ /\ Raise
          /\ UNCHANGED outbox
    /\ UNCHANGED <<alerts, now, config, oracle, stop_event, boot>>

\* line 212 (and 161): the thread sleeps, then tests the loop condition
WorkerSleep ==
    /\ pc = "sleep"
    /\ pc' = "loop"
    /\ sent' = NoMessage
    /\ UNCHANGED <<alerts, now, config, oracle, stop_event, boot,
                   rows, prices, i, last_val, ts, moved, outbox, polled>>

\* Mutant of WorkerExcept: the exception ends the thread.
WorkerExceptEnds ==
    /\ pc = "except"
    /\ pc' = "done"
    /\ UNCHANGED <<alerts, now, config, oracle, stop_event, boot,
                   locals, outbox>>

\* lines 213-215: the exception is printed, the thread sleeps, then tests the
\* loop condition
WorkerExcept ==
    /\ pc = "except"
    /\ pc' = "loop"
    /\ UNCHANGED <<alerts, now, config, oracle, stop_event, boot,
                   locals, outbox>>

\* lines 224, 238 and 383: the join of _shutdown waits 2 seconds at most and
\* the thread is a daemon, so when the interpreter exits after _shutdown the
\* worker is stopped wherever it is.  A cycle holds calls that may take longer
\* than the join (HTTP timeouts of 8 s, a database lock timeout of 10 s).
ProcessExit ==
    /\ stop_event
    /\ pc \notin {"idle", "done", "killed"}
    /\ pc' = "killed"
    /\ EndCycle
    /\ last_val' = NULL
    /\ ts' = NULL
    /\ moved' = FALSE
    /\ sent' = NoMessage
    /\ UNCHANGED <<alerts, now, config, oracle, stop_event, boot, outbox>>

----------------------------------------------------------------------------
(* GET /dump_prices, lines 357-362.  The handler writes nothing but         *)
(* get_account_id.cached (line 112), and only when it finds no cached value *)
(* (line 99), has a token (line 101) and fetch_prices got past line 123.    *)
(* It is modelled from the GET of line 104 to its answer: the other threads *)
(* run while the request waits for the answer.  A call that returns before  *)
(* line 104 changes nothing and is left out.                                *)

\* lines 359-361, 123-125, 99-104: the handler sends GET /v3/accounts
dump_prices_call ==
    /\ Serving
    /\ dump = "idle"
    /\ Instruments(SqlSelectActive(alerts)) # {}
    /\ cached = NoAccount
    /\ OANDA_TOKEN
    /\ dump' = "resolving"
    /\ UNCHANGED <<alerts, now, config, cached, cache_writes, stop_event,
                   boot, pc, locals, outbox>>

\* lines 105-118: the answer of GET /v3/accounts; line 112 writes the cache
dump_prices_return ==
    /\ dump = "resolving"
    /\ pc # "killed"
    /\ dump' = "idle"
    /\ \E http \in AccountHttp :
          IF http = "ok"
          THEN cached' = ACCOUNT /\ cache_writes' = cache_writes + 1
          ELSE UNCHANGED <<cached, cache_writes>>
    /\ UNCHANGED <<alerts, now, config, stop_event, boot, pc, locals, outbox>>

----------------------------------------------------------------------------
(* Specifications.  Spec: the operations on the alerts table, the clock      *)
(* included, on the narrow inputs.  SpecEval: every operation on the wide    *)
(* inputs, /dump_prices included; the clock stands still there (no guard of  *)
(* the program reads it, it only stamps rows).                               *)

Create(inputs, max) ==
    /\ Len(alerts) < max
    /\ \E rq \in inputs : create_alert(rq[1], rq[2], rq[3], rq[4])

Cancel == \E aid \in 1..MaxAlerts : cancel(aid)

ForceTrigger == \E aid \in 1..MaxAlerts : force_trigger(aid)

Next ==
    \/ Tick
    \/ start_worker_background
    \/ Shutdown
    \/ Create(CreateInputs, MaxAlerts)
    \/ Cancel
    \/ ForceTrigger
    \/ WorkerLoop
    \/ WorkerSelect
    \/ WorkerFetch(QuoteInputs)
    \/ WorkerCheck
    \/ WorkerNotify
    \/ WorkerSleep
    \/ WorkerExcept
    \/ ProcessExit

Spec == Init /\ [][Next]_vars

NextEval ==
    \/ start_worker_background
    \/ Shutdown
    \/ Create(EvalCreateInputs, MaxEvalAlerts)
    \/ Cancel
    \/ ForceTrigger
    \/ WorkerLoop
    \/ WorkerSelect
    \/ WorkerFetch(EvalQuoteInputs)
    \/ WorkerCheck
    \/ WorkerNotify
    \/ WorkerSleep
    \/ WorkerExcept
    \/ ProcessExit
    \/ dump_prices_call
    \/ dump_prices_return

SpecEval == Init /\ [][NextEval]_vars

\* SpecQuotes: the operations on the alerts table on the inputs of the price
\* arithmetic; the clock stands still
NextQuotes ==
    \/ start_worker_background
    \/ Shutdown
    \/ Create(QuoteCreateInputs, MaxEvalAlerts)
    \/ Cancel
    \/ ForceTrigger
    \/ WorkerLoop
    \/ WorkerSelect
    \/ WorkerFetch(SideInputs)
    \/ WorkerCheck
    \/ WorkerNotify
    \/ WorkerSleep
    \/ WorkerExcept
    \/ ProcessExit

SpecQuotes == Init /\ [][NextQuotes]_vars

\* SpecPoll: the operations on the alerts table with alerts on two
\* instruments and the narrow quotes; the clock stands still
NextPoll ==
    \/ start_worker_background
    \/ Shutdown
    \/ Create(PollCreateInputs, MaxPollAlerts)
    \/ Cancel
    \/ ForceTrigger
    \/ WorkerLoop
    \/ WorkerSelect
    \/ WorkerFetch(QuoteInputs)
    \/ WorkerCheck
    \/ WorkerNotify
    \/ WorkerSleep
    \/ WorkerExcept
    \/ ProcessExit

SpecPoll == Init /\ [][NextPoll]_vars

\* a step of the worker thread
WorkerStep ==
    \/ WorkerLoop
    \/ WorkerSelect
    \/ WorkerFetch(QuoteInputs)
    \/ WorkerCheck
    \/ WorkerNotify
    \/ WorkerSleep
    \/ WorkerExcept

\* SpecLive: the operations on the alerts table on the forms of SpecPoll and
\* the narrow quotes, with a worker thread that is scheduled as long as it
\* can run: every call of a cycle returns (the HTTP calls and the database
\* have timeouts, time.sleep returns); the clock stands still
NextLive ==
    \/ start_worker_background
    \/ Shutdown
    \/ Create(PollCreateInputs, MaxEvalAlerts)
    \/ Cancel
    \/ ForceTrigger
    \/ WorkerStep
    \/ ProcessExit

SpecLive == Init /\ [][NextLive]_vars /\ WF_vars(WorkerStep)

----------------------------------------------------------------------------
(* Properties *)

Terminal == {"triggered", "cancelled"}

\* the worker thread took the step
WorkerStepped == <<pc, i>>' # <<pc, i>> /\ pc' # "killed"

\* the number of send_telegram calls the worker made for alert aid
Notifications(aid) == CopiesIn(aid, outbox)

\* C1: in every reachable state each alert has triggered_ts and
\* triggered_price set if and only if its status is 'triggered'.
C1_TriggerFieldsIffTriggered ==
    \A n \in DOMAIN alerts :
        /\ (alerts[n].triggered_ts # NULL) <=> (alerts[n].status = "triggered")
        /\ (alerts[n].triggered_price # NULL) <=> (alerts[n].status = "triggered")

\* C2: once an alert's status is 'triggered' or 'cancelled' no step changes it.
C2_StatusOneWay ==
    [][\A n \in DOMAIN alerts :
          alerts[n].status \in Terminal => alerts'[n].status = alerts[n].status]_vars

\* C3: the worker sends a notification for an alert only if its trigger write
\* of this cycle moved the alert from 'active' to 'triggered'.
C3_NotifyOnlyIfMoved ==
    [][outbox' # outbox => moved]_vars

\* C4: a trigger write (the worker's UPDATE or the force-trigger endpoint)
\* applied to an alert that is no longer 'active' leaves its record unchanged.
C4_RetriggerIsNoOp ==
    [][\A aid \in DOMAIN alerts :
          ( /\ ~IsActive(alerts[aid])
            /\ \/ force_trigger(aid)
               \/ (WorkerCheck /\ pc' = "notify" /\ rows[i].id = aid) )
          => alerts'[aid] = alerts[aid]]_vars

\* C5: over any execution the worker makes at most one notification attempt
\* per alert id.
C5_AtMostOneNotification ==
    \A n \in DOMAIN alerts : Notifications(n) <= 1

\* C5 witness: a later cycle is evaluating alert 2 alone, after alert 1 was
\* notified in an earlier cycle and then cancelled by a request.
C5_Witness ==
    /\ pc = "check"
    /\ Len(rows) = 1
    /\ rows[1].id = 2
    /\ Notifications(1) = 1
    /\ alerts[1].status = "cancelled"

\* The trigger predicate as the specification states it, on the extended
\* reals: a NULL target satisfies nothing, an infinite target is above every
\* price.
TriggerPredicate(direction, price, target, oanda_inst) ==
    CASE direction = "above" -> target.k = "num" /\ price.v >= target.v
      [] direction = "below" ->
            target.k = "inf" \/ (target.k = "num" /\ price.v <= target.v)
      [] direction = "touch" ->
            /\ target.k = "num"
            /\ price.v - target.v <= Tolerance(oanda_inst)
            /\ target.v - price.v <= Tolerance(oanda_inst)
      [] OTHER -> FALSE

\* C6: when the worker evaluates a row whose instrument has a quote, it runs
\* the trigger write (which sets the alert 'triggered', or raises and changes
\* nothing) if and only if the direction's predicate holds on the observed
\* price; otherwise the step changes no alert and sends nothing.
C6_TriggerIffPredicate ==
    [][( /\ pc = "check"
         /\ WorkerStepped
         /\ ObservedPrice(prices, rows[i].oanda_instrument) # NULL )
       => LET r == rows[i]
              last == ObservedPrice(prices, r.oanda_instrument)
          IN IF TriggerPredicate(r.direction, last, r.target, r.oanda_instrument)
             THEN \/ /\ pc' = "notify"
                     /\ alerts'[r.id].status = "triggered"
                     /\ alerts'[r.id].triggered_price = last
                  \/ /\ pc' = "except"
                     /\ alerts' = alerts
             ELSE /\ alerts' = alerts
                  /\ outbox' = outbox
                  /\ pc' \in {"check", "sleep"}]_vars

\* C6 witness: a 'touch' alert on a currency pair was triggered by a price
\* exactly the tolerance away from its target.
C6_Witness ==
    /\ pc = "notify"
    /\ rows[i].direction = "touch"
    /\ ~StartsWith(rows[i].oanda_instrument, XAU)
    /\ last_val.v - rows[i].target.v = EPS
    /\ alerts[rows[i].id].status = "triggered"

\* the oracle's result has no entry for the code, or an entry without a price
NoUsableQuote(p, code) ==
    \/ code \notin DOMAIN p
    \/ (p[code].bid = NULL /\ p[code].ask = NULL)

\* C7: evaluating a row whose instrument has no usable quote changes no alert,
\* sends nothing and raises nothing: the worker goes on with the next row or
\* ends the cycle; and the next cycle reads every alert that is still active.
C7_MissingQuoteSkips ==
    [][ /\ ( /\ pc = "check"
             /\ WorkerStepped
             /\ NoUsableQuote(prices, rows[i].oanda_instrument) )
           => ( /\ alerts' = alerts
                /\ outbox' = outbox
                /\ pc' \in {"check", "sleep"} )
        /\ (pc = "select" /\ pc' \in {"fetch", "sleep"})
           => \A n \in DOMAIN alerts :
                 IsActive(alerts[n]) => \E k \in DOMAIN rows' : rows'[k].id = n
      ]_vars

\* C7 witness: the oracle had no usable quote for the instrument of the first
\* row; the worker is at the second row and the first row's alert is still
\* active, untriggered and unnotified.
C7_Witness ==
    /\ pc = "check"
    /\ i = 2
    /\ NoUsableQuote(prices, rows[1].oanda_instrument)
    /\ alerts[rows[1].id].status = "active"
    /\ alerts[rows[1].id].triggered_ts = NULL
    /\ alerts[rows[1].id].triggered_price = NULL
    /\ Notifications(rows[1].id) = 0

\* C8: every stored alert has a finite target and a direction among 'above',
\* 'below', 'touch' (creation rejects anything else).
C8_StoredAlertsValid ==
    \A n \in DOMAIN alerts :
        /\ alerts[n].target.k = "num"
        /\ alerts[n].direction \in {"above", "below", "touch"}

C10_NotifyFailureKeepsTrigger ==
    [][( /\ pc = "notify"
         /\ outbox' # outbox
         /\ ~sent'.ok )
       => ( /\ alerts' = alerts
            /\ alerts'[rows[i].id].status # "active"
            /\ alerts'[rows[i].id].triggered_ts # NULL
            /\ alerts'[rows[i].id].triggered_price # NULL
            /\ pc' \in {"check", "sleep"} )]_vars

\* C10 witness: the notification of the first row failed, its alert is still
\* 'triggered' at the notified price, and the worker is at the second row.
C10_Witness ==
    /\ pc = "check"
    /\ i = 2
    /\ ~sent.ok
    /\ sent.id = rows[1].id
    /\ alerts[rows[1].id].status = "triggered"
    /\ alerts[rows[1].id].triggered_price = sent.price
    /\ alerts[rows[1].id].triggered_ts = sent.ts

\* the worker is inside the try block of a cycle
InCycle == pc \in {"select", "fetch", "check", "notify", "sleep"}

\* the steps C11 allows the worker
ContainedStep ==
    /\ (InCycle /\ pc' # "killed") => (InCycle' \/ pc' \in {"except", "loop"})
    /\ (pc = "except" /\ pc' # "killed") => pc' \in {"except", "loop"}
    /\ (pc = "loop" /\ ~stop_event) => pc' \in {"loop", "select"}
    /\ (pc' \in {"done", "killed"} /\ pc' # pc) => stop_event

\* C11: an error raised in a cycle is contained in the loop: from a cycle the
\* worker goes on in the cycle or to the handler, never out of the loop; the
\* handler sleeps and goes back to the loop test, which starts a new cycle
\* unless the stop signal is set; the loop ends only once the stop signal is
\* set.
C11_ErrorsContained ==
    /\ [][ContainedStep]_vars
    /\ (pc = "except") ~> (pc \in {"select", "done", "killed"})

\* C11 witness: a cycle raised, and the worker is back at the SELECT of a new
\* cycle while the stop signal is not set.
C11_Witness ==
    /\ pc = "select"
    /\ ~stop_event
    /\ alerts # <<>>
    /\ alerts[1].status = "triggered"
    /\ alerts[1].triggered_price # Num(FORCE_PRICE)
    /\ Notifications(1) = 0

EUR_USD == to_oanda_instrument(EURUSD)

\* what fetch_prices returns on an upstream failure, for every state of the
\* cache and every outcome of the two HTTP calls: the empty mapping when there
\* is no credential, when the account lookup fails or when the pricing call
\* fails; never more than the entries that were read
OracleDegrades ==
    \A c \in {NoAccount, ACCOUNT}, token \in BOOLEAN,
       ah \in AccountHttp, ph \in PricingHttp,
       resp \in Responses({EUR_USD}, EvalQuoteInputs) :
       LET aid == get_account_id(c, token, ah).aid
           out == fetch_prices({EUR_USD}, aid, ph, resp)
       IN /\ (c = NoAccount /\ (~token \/ ah # "ok")) => out = EmptyDict
          /\ ph # "ok" => out = EmptyDict
          /\ DOMAIN out \subseteq DOMAIN resp

\* the steps of the worker around an empty mapping
EmptyMappingStep ==
    /\ (pc = "fetch" /\ pc' = "check" /\ cached' = NoAccount)
          => prices' = EmptyDict
    /\ (pc = "fetch" /\ WorkerStepped)
          => (pc' = "check" /\ alerts' = alerts /\ outbox' = outbox)
    /\ (pc = "check" /\ prices = EmptyDict /\ WorkerStepped)
          => (alerts' = alerts /\ outbox' = outbox /\ pc' \in {"check", "sleep"})

\* C12: an upstream failure makes the oracle return the empty (or a partial)
\* mapping; the call of the oracle never raises into the cycle; and in a cycle
\* where the mapping is empty the worker changes no alert and sends nothing.
C12_OracleFailureIsEmpty ==
    [][OracleDegrades /\ EmptyMappingStep]_vars

\* C12 witness: a token is set but the account lookup failed, the mapping is
\* empty, and the worker has gone past the first row without touching it.
C12_Witness ==
    /\ pc = "check"
    /\ i = 2
    /\ OANDA_TOKEN
    /\ cached = NoAccount
    /\ prices = EmptyDict
    /\ alerts[rows[1].id].status = "active"
    /\ alerts[rows[1].id].triggered_price = NULL
    /\ outbox = EmptyBag

\* the worker has read the alerts of a cycle and has not finished it
MidCycle == pc \in {"fetch", "check", "notify"}

\* the steps C13 allows
GracefulStep ==
    /\ pc' = "killed" => ~MidCycle
    /\ (stop_event /\ pc = "loop") => pc' # "select"

\* C13: the process never exits while the worker is in the middle of a cycle;
\* once the stop signal is set the test of the loop starts no further cycle,
\* and the worker eventually terminates.
C13_NoExitMidCycle ==
    /\ [][GracefulStep]_vars
    /\ stop_event ~> (pc \in {"idle", "done", "killed"})

\* the steps C14 allows on the cache of get_account_id
CacheStep ==
    /\ cache_writes' <= 1
    /\ cached # NoAccount => cached' = cached
    /\ (cached # NoAccount /\ dump = "idle")
          => (dump' = "idle" /\ cache_writes' = cache_writes)
    /\ cached' = NoAccount => cache_writes' = cache_writes

\* C14: get_account_id.cached is written at most once, also when the worker
\* and a /dump_prices request look the account up at the same time; a lookup
\* that starts once it is set makes no upstream resolution and no write; a
\* failed resolution writes nothing.
C14_CacheWrittenOnce == [][CacheStep]_vars

\* the evaluation of a 'touch' row with target 2000.00 at the price 2000.05
\* (2000000000 and 2000050000 millionths)
TouchStep ==
    (/\ pc = "check"
     /\ WorkerStepped
     /\ rows[i].direction = "touch"
     /\ rows[i].target = Num(2000000000)
     /\ ObservedPrice(prices, rows[i].oanda_instrument) = Num(2000050000))
    => IF StartsWith(rows[i].oanda_instrument, XAU)
       THEN \/ /\ pc' = "notify"
               /\ alerts'[rows[i].id].status = "triggered"
               /\ alerts'[rows[i].id].triggered_price = Num(2000050000)
            \/ pc' = "except" /\ alerts' = alerts
       ELSE pc' \in {"check", "sleep"} /\ alerts' = alerts

HistoryStep ==
    /\ Len(alerts') >= Len(alerts)
    /\ \A n \in DOMAIN alerts : alerts'[n].id = alerts[n].id
    /\ \A n \in DOMAIN alerts' \ DOMAIN alerts :
          \A m \in DOMAIN alerts : alerts'[n].id > alerts[m].id

\* C16: no step removes a row of the table or changes its id, and a row that
\* is added has an id greater than the id of every row before it.
C16_HistoryKept == [][HistoryStep]_vars

\* C16 witness: two alerts with ids 1 and 2 are in the table after the first
\* was cancelled and the second triggered.
C16_Witness ==
    /\ Len(alerts) = 2
    /\ alerts[1].id = 1
    /\ alerts[2].id = 2
    /\ alerts[1].status = "cancelled"
    /\ alerts[2].status = "triggered"

\* the steps C17 allows: at most one call of the oracle in a cycle, none in
\* a cycle that read no row, and at the end of a cycle that read rows one
\* call, for the codes of its rows
PollStep ==
    /\ Len(polled') <= 1
    /\ (pc = "select" /\ WorkerStepped) => polled' = <<>>
    /\ (pc \in {"check", "notify"} /\ pc' = "sleep")
          => /\ Len(polled) = 1
             /\ \A k \in DOMAIN rows :
                   rows[k].oanda_instrument # <<>>
                      => rows[k].oanda_instrument \in polled[1]
             /\ \A c \in polled[1] :
                   \E k \in DOMAIN rows : rows[k].oanda_instrument = c

\* C17: a cycle that reads active alerts asks the price oracle exactly once,
\* for the set of the instrument codes of the rows it read; a cycle that
\* reads no active alert does not ask it.
C17_OneQueryPerCycle == [][PollStep]_vars

\* C17 witness: the cycle read two alerts with the same code and has asked
\* the oracle once, for that one code.
C17_Witness ==
    /\ pc = "check"
    /\ Len(rows) = 2
    /\ rows[1].oanda_instrument = rows[2].oanda_instrument
    /\ polled = << {rows[1].oanda_instrument} >>

\* C18: in every mapping the oracle returns, the mid of an entry is
\* (bid+ask)/2 when both sides are present, the present side when exactly one
\* is, and unavailable only when both are absent; and the price the worker
\* evaluates is the mid whenever the mid is available.
C18_MidOfSides ==
    \A c \in DOMAIN prices :
       LET q == prices[c] IN
       /\ (q.bid # NULL /\ q.ask # NULL) => q.mid = Num((q.bid.v + q.ask.v) \div 2)
       /\ (q.bid # NULL /\ q.ask = NULL) => q.mid = q.bid
       /\ (q.bid = NULL /\ q.ask # NULL) => q.mid = q.ask
       /\ q.mid = NULL => (q.bid = NULL /\ q.ask = NULL)
       /\ q.mid # NULL => ObservedPrice(prices, c) = q.mid

Created(a) == <<a.id, a.instrument, a.oanda_instrument, a.direction, a.target,
                a.note, a.created_ts>>

\* the steps C20 allows: the columns written at creation keep their values, a
\* step changes one alert at most, an alert is created with the code derived
\* from its symbol, and the rows the worker holds carry the stored code
FrameStep ==
    /\ \A n \in DOMAIN alerts : Created(alerts'[n]) = Created(alerts[n])
    /\ Cardinality({n \in DOMAIN alerts : alerts'[n] # alerts[n]}) <= 1
    /\ \A n \in DOMAIN alerts' \ DOMAIN alerts :
          alerts'[n].oanda_instrument = to_oanda_instrument(alerts'[n].instrument)
    /\ \A k \in DOMAIN rows' :
          rows'[k].oanda_instrument = alerts'[rows'[k].id].oanda_instrument

\* C20: cancel, the worker's trigger write and force-trigger change nothing
\* but status, triggered_ts and triggered_price, of one alert; symbol, code,
\* direction, target, note and created timestamp never change, and the worker
\* looks a quote up under the code derived at creation.
C20_CreatedFieldsKept == [][FrameStep]_vars

\* C20 witness: the first alert was force-triggered and the second is as it
\* was created.
C20_Witness ==
    /\ Len(alerts) = 2
    /\ alerts[1].status = "triggered"
    /\ alerts[1].triggered_price = Num(FORCE_PRICE)
    /\ alerts[1].target = Num(1100000)
    /\ alerts[1].oanda_instrument = EUR_USD
    /\ alerts[2].status = "active"
    /\ alerts[2].triggered_ts = NULL
    /\ alerts[2].triggered_price = NULL

====
